---- MODULE Spec2Model ----
(***************************************************************************)
(* A model of the podcast-post crawler of analysis.py: the page processor  *)
(* (process_page), the transport wrapper (fetch_page) and the crawl        *)
(* coordinator (get_blog_posts) with its pool of five worker threads,     *)
(* the field extractors (extract_content_sections, extract_comment_count)  *)
(* and the annotation stage (analyze_posts); and of the sequential crawl   *)
(* of cwt_post_analysis.py (get_blog_posts).                               *)
(*                                                                         *)
(* Markup is modelled by what the queries of the code read from it.  An    *)
(* optional element or attribute is a sequence of length 0 or 1, so that   *)
(* entry.find(tag) is "the first element, or None".  A page is the         *)
(* sequence of its <article> entries in document order.  A title is the    *)
(* sequence of its words; a datetime attribute is the sequence of the      *)
(* numeric fields of its first ten characters.                             *)
(***************************************************************************)
EXTENDS Integers, Sequences, FiniteSets, TLC

\* ------------------------------------------------------------------ bounds
\* Largest max_pages the crawl is started with.
MaxPages == 3
\* Largest number of <article> entries on a page handed to process_page.
MaxFrags == 3
\* Pages beyond the size of the worker pool in the crawl that fills the pool.
ExtraPages == 1
\* The most children the content container of an entry has.
MaxNodes == 4
\* The most strings an entry has.
MaxStrings == 3
\* The most posts handed to analyze_posts.
MaxPosts == 2
\* The most pages the legacy crawl requests.
MaxLegacyPages == 4

\* --------------------------------------------------------------- constants
\* ThreadPoolExecutor(max_workers=5)
max_workers == 5

\* --------------------------------------------------------- optional values
NoElem == << >>
Some(x) == << x >>
IsSome(o) == o # << >>
The(o) == o[1]

\* ------------------------------------------------------------------- dates
\* A datetime value, ordered as datetime orders dates.
DateOf(y, m, d) == y * 10000 + m * 100 + d

\* cutoff_date = datetime(2024, 1, 1)
cutoff_date == DateOf(2024, 1, 1)

IsLeap(y) == (y % 4 = 0 /\ y % 100 # 0) \/ y % 400 = 0

DaysInMonth(y, m) ==
    IF m \in {4, 6, 9, 11} THEN 30
    ELSE IF m = 2 THEN (IF IsLeap(y) THEN 29 ELSE 28)
    ELSE 31

\* datetime.strptime(text[:10], '%Y-%m-%d'): the fields of the text must be a
\* year, a month and a day of that month; anything else raises ValueError.
strptime(text) ==
    IF /\ Len(text) = 3
       /\ text[1] \in 1..9999
       /\ text[2] \in 1..12
       /\ text[3] \in 1..DaysInMonth(text[1], text[2])
    THEN [ok |-> TRUE, date |-> DateOf(text[1], text[2], text[3])]
    ELSE [ok |-> FALSE, date |-> 0]

\* ------------------------------------------------------------------ titles
\* str.lower() / re.IGNORECASE on the words that occur in the modelled titles.
Lower(w) ==
    CASE w = "My" -> "my"
      [] w = "Excellent" -> "excellent"
      [] w = "Conversation" -> "conversation"
      [] w = "Conversations" -> "conversations"
      [] w = "Tommy" -> "tommy"
      [] w = "Great" -> "great"
      [] w = "Long" -> "long"
      [] w = "Excellently" -> "excellently"
      [] OTHER -> w

\* The word contains "conversation" (the patterns carry no word boundary).
HasConversation(w) == Lower(w) \in {"conversation", "conversations"}

\* The word ends in "my".
EndsWithMy(w) == Lower(w) \in {"my", "tommy"}

\* A mutation of podcast_pattern_search: the title test is dropped.
search_any_title(title) == TRUE

\* podcast_pattern.search(title): both alternatives of the pattern need the
\* text "conversation", and the second alternative is that text alone.
podcast_pattern_search(title) ==
    \E i \in 1..Len(title) : HasConversation(title[i])

\* re.search(r'my\s+(\w+)\s+conversation', title, re.IGNORECASE): the word
\* captured by the leftmost match, or None.
qualifier_match(title) ==
    LET hits == {i \in 1..Len(title) :
                    /\ i + 2 <= Len(title)
                    /\ EndsWithMy(title[i])
                    /\ HasConversation(title[i + 2])}
    IN IF hits = {} THEN NoElem
       ELSE LET first == CHOOSE i \in hits : \A j \in hits : i <= j
            IN Some(title[first + 1])

\* -------------------------------------------------------------------- text
\* A string is the sequence of its words, which whitespace separates; a run
\* of whitespace at either end of it is the word Space. The empty sequence is
\* the empty string.
Space == " "

\* str.strip()
RECURSIVE lstrip(_)
lstrip(s) == IF s # << >> /\ Head(s) = Space THEN lstrip(Tail(s)) ELSE s

RECURSIVE rstrip(_)
rstrip(s) ==
    IF s # << >> /\ s[Len(s)] = Space THEN rstrip(SubSeq(s, 1, Len(s) - 1)) ELSE s

strip(s) == rstrip(lstrip(s))

\* filter(None, strings): the strings that are not empty.
filter_none(strings) == SelectSeq(strings, LAMBDA x : x # << >>)

\* ' '.join(strings)
RECURSIVE join(_)
join(strings) ==
    IF strings = << >> THEN << >> ELSE Head(strings) \o join(Tail(strings))

\* ----------------------------------------------------------------- entries
\* A child of the content container: its name (none for a text node), its
\* .string (none for a tag with several children) and the strings in it.
Node(name, string, strings) ==
    [name |-> name, string |-> string, strings |-> strings]
NavigableString(s) == Node(NoElem, Some(s), << s >>)
Tag(name, s) == Node(Some(name), Some(s), << s >>)
TagOfSeveral(name, strings) == Node(Some(name), NoElem, strings)

\* One <article>: its first <time> (with its datetime attribute), its first
\* <h1> and <h2> (with their text), its first <a> (with its href), the
\* children of its first <div class="entry-content"> and the strings of the
\* article that come after them.
Entry(time, h1, h2, a) ==
    [time |-> time, h1 |-> h1, h2 |-> h2, a |-> a,
     content |-> NoElem, footer |-> << >>]

WithBody(entry, content, footer) ==
    [entry EXCEPT !.content = content, !.footer = footer]

TimeElem(datetime) == [datetime |-> datetime]
Anchor(href) == [href |-> href]

\* What fetch_page returns: None, or response.text, which is the empty
\* string or markup holding a sequence of entries.
None == [kind |-> "None", articles |-> << >>]
EmptyText == [kind |-> "empty", articles |-> << >>]
Markup(articles) == [kind |-> "markup", articles |-> articles]

\* Python truthiness of an html value ("if html", "if not html").
Truthy(html) == html.kind = "markup"

\* A mutation of HasDatetime: an entry without a heading is passed over
\* before its date is looked at.
HasDatetimeAndHeading(entry) ==
    /\ IsSome(entry.time)
    /\ IsSome(The(entry.time).datetime)
    /\ The(The(entry.time).datetime) # << >>
    /\ (IsSome(entry.h1) \/ IsSome(entry.h2))

\* date_elem and date_elem.get('datetime'): a <time> whose attribute is
\* present and not the empty string.
HasDatetime(entry) ==
    /\ IsSome(entry.time)
    /\ IsSome(The(entry.time).datetime)
    /\ The(The(entry.time).datetime) # << >>

\* entry.find('h1') or entry.find('h2')
title_elem(entry) == IF IsSome(entry.h1) THEN entry.h1 ELSE entry.h2

\* entry.find('a')['href'] if entry.find('a') else '': subscripting an <a>
\* that has no href raises KeyError.
HrefRaises(entry) == IsSome(entry.a) /\ ~IsSome(The(entry.a).href)
url_of(entry) == IF IsSome(entry.a) THEN The(The(entry.a).href) ELSE ""

\* ------------------------------------------------ extract_content_sections
\* A mutation of clears: any node after a blockquote clears the flag.
clears_on_any(in_blockquote, element) == in_blockquote

\* elif in_blockquote and element.name in ['p', 'div']
clears(in_blockquote, element) ==
    in_blockquote /\ element.name \in {Some("p"), Some("div")}

\* if not in_blockquote and element.string
appends(in_blockquote, element) ==
    ~in_blockquote /\ IsSome(element.string) /\ The(element.string) # << >>

\* A mutation of Walk: the element that clears the flag is still taken to be
\* inside the quoted block.
RECURSIVE WalkClearAfter(_, _, _, _)
WalkClearAfter(contents, i, in_blockquote, tyler_commentary) ==
    IF i > Len(contents) THEN tyler_commentary
    ELSE LET element == contents[i]
         IN IF element.name = Some("blockquote")
            THEN WalkClearAfter(contents, i + 1, TRUE, tyler_commentary)
            ELSE WalkClearAfter(contents, i + 1,
                     in_blockquote /\ ~clears(in_blockquote, element),
                     IF appends(in_blockquote, element)
                     THEN Append(tyler_commentary, strip(The(element.string)))
                     ELSE tyler_commentary)

\* for element in content_div.contents: the elements from the i-th on, with
\* the flag and the list as they are when the i-th is reached.
RECURSIVE Walk(_, _, _, _)
Walk(contents, i, in_blockquote, tyler_commentary) ==
    IF i > Len(contents) THEN tyler_commentary
    ELSE LET element == contents[i]
         IN IF element.name = Some("blockquote")
            THEN Walk(contents, i + 1, TRUE, tyler_commentary)
            ELSE LET flag == in_blockquote /\ ~clears(in_blockquote, element)
                 IN Walk(contents, i + 1, flag,
                         IF appends(flag, element)
                         THEN Append(tyler_commentary, strip(The(element.string)))
                         ELSE tyler_commentary)

\* The strings of a sequence of nodes, in document order.
RECURSIVE strings_of(_)
strings_of(contents) ==
    IF contents = << >> THEN << >>
    ELSE Head(contents).strings \o strings_of(Tail(contents))

\* content_div.get_text(): the strings of the container, one after the other.
get_text(contents) == join(strings_of(contents))

\* re.search(r'Recommended\s*$', text): the last word ends in "Recommended".
recommended_search(text) ==
    text # << >> /\ text[Len(text)] \in {"Recommended", "HighlyRecommended"}

extract_content_sections(entry) ==
    IF ~IsSome(entry.content)
    THEN [commentary |-> << >>, ends_with_recommended |-> FALSE]
    ELSE LET contents == The(entry.content)
         IN [commentary |-> join(filter_none(Walk(contents, 1, FALSE, << >>))),
             ends_with_recommended |-> recommended_search(strip(get_text(contents)))]

\* --------------------------------------------------- extract_comment_count
\* entry.strings: the strings of the article in document order, the headings
\* first, then the content container, then what follows it.
entry_strings(entry) ==
    entry.h1 \o entry.h2
    \o (IF IsSome(entry.content) THEN strings_of(The(entry.content)) ELSE << >>)
    \o entry.footer

\* text.endswith('Comments') or text.endswith('Comment')
endswith_comment(text) ==
    text # << >> /\ text[Len(text)] \in {"Comment", "Comments"}

\* The digits a word ends with, as a number, if it ends with any.
Digits(w) ==
    CASE w = "3" -> Some(3)
      [] w = "8" -> Some(8)
      [] w = "12" -> Some(12)
      [] OTHER -> NoElem

StartsWithComment(w) == w \in {"Comment", "Comments", "Comments,"}

\* re.search(r'(\d+)\s+Comment', comment_text): the leftmost word ending in
\* digits that a word beginning with "Comment" follows; group(1) as an int.
count_search(text) ==
    LET hits == {i \in 1..(Len(text) - 1) :
                    IsSome(Digits(text[i])) /\ StartsWithComment(text[i + 1])}
    IN IF hits = {} THEN NoElem
       ELSE Digits(text[CHOOSE i \in hits : \A j \in hits : i <= j])

\* The loop over entry.strings: the first stripped string that ends with
\* "Comments" or "Comment", if there is one.
RECURSIVE find_comment_text(_)
find_comment_text(strings) ==
    IF strings = << >> THEN NoElem
    ELSE IF endswith_comment(strip(Head(strings))) THEN Some(strip(Head(strings)))
    ELSE find_comment_text(Tail(strings))

extract_comment_count(entry) ==
    LET comment_text == find_comment_text(entry_strings(entry))
    IN IF IsSome(comment_text) /\ The(comment_text) # << >>
       THEN IF IsSome(count_search(The(comment_text)))
            THEN The(count_search(The(comment_text)))
            ELSE IF The(comment_text) = << "Comment" >> THEN 1 ELSE 0
       ELSE 0

\* The dict appended to posts for an entry.
Post(entry, post_date, title) ==
    [date |-> post_date,
     title |-> title,
     commentary |-> extract_content_sections(entry).commentary,
     url |-> url_of(entry),
     title_qualifier |-> qualifier_match(title),
     comment_count |-> extract_comment_count(entry),
     ends_with_recommended |-> extract_content_sections(entry).ends_with_recommended]

\* A mutation of BeforeCutoff: the cutoff of the legacy script, 2023-01-01, is
\* compared against instead of the cutoff passed in.
BeforeLegacyCutoff(post_date, cutoff) == post_date < DateOf(2023, 1, 1)

\* post_date < cutoff_date
BeforeCutoff(post_date, cutoff) == post_date < cutoff

\* The outcomes of process_page: a returned pair, or an exception.
Return(posts, reached) == [raised |-> FALSE, posts |-> posts, reached |-> reached]
Raise == [raised |-> TRUE, posts |-> << >>, reached |-> FALSE]

\* The loop "for entry in entries" of process_page from entry i on, with
\* the posts appended so far.
RECURSIVE ScanEntries(_, _, _, _)
ScanEntries(entries, i, posts, cutoff) ==
    IF i > Len(entries) THEN Return(posts, FALSE)
    ELSE LET entry == entries[i] IN
      IF ~HasDatetime(entry) THEN ScanEntries(entries, i + 1, posts, cutoff)
      ELSE LET parsed == strptime(The(The(entry.time).datetime)) IN
        IF ~parsed.ok THEN Raise
        ELSE IF BeforeCutoff(parsed.date, cutoff) THEN Return(posts, TRUE)
        ELSE IF ~IsSome(title_elem(entry))
          THEN ScanEntries(entries, i + 1, posts, cutoff)
        ELSE LET title == The(title_elem(entry)) IN
          IF ~podcast_pattern_search(title)
            THEN ScanEntries(entries, i + 1, posts, cutoff)
          ELSE IF HrefRaises(entry) THEN Raise
          ELSE ScanEntries(entries, i + 1,
                           Append(posts, Post(entry, parsed.date, title)), cutoff)

process_page(html, cutoff) ==
    IF ~Truthy(html) THEN Return(<< >>, FALSE)
    ELSE ScanEntries(html.articles, 1, << >>, cutoff)

\* ------------------------------------------------------------ analyze_posts
\* A mutation of append_new: the qualifier is appended whether or not the
\* list has it.
append_always(qualifiers, q) == Append(qualifiers, q)

\* if q not in qualifiers: qualifiers.append(q)
append_new(qualifiers, q) ==
    IF \E k \in 1..Len(qualifiers) : qualifiers[k] = q
    THEN qualifiers
    ELSE Append(qualifiers, q)

\* re.search(r'excellent', text, re.IGNORECASE): some word contains it.
excellent_search(text) ==
    \E i \in 1..Len(text) : Lower(text[i]) \in {"excellent", "excellently"}

\* The letters of a word, lowercased, without the punctuation after them.
Letters(w) == IF Lower(w) = "wonderful!" THEN "wonderful" ELSE Lower(w)

\* re.search(rf'\b{qualifier}\b', text, re.IGNORECASE)
word_search(qualifier, text) ==
    \E i \in 1..Len(text) : Letters(text[i]) = qualifier

other_qualifiers ==
    << "fascinating", "wonderful", "great", "outstanding", "remarkable",
       "contentious" >>

\* for qualifier in other_qualifiers, from the k-th on.
RECURSIVE ScanOthers(_, _, _)
ScanOthers(post, k, qualifiers) ==
    IF k > Len(other_qualifiers) THEN qualifiers
    ELSE ScanOthers(post, k + 1,
             IF \/ word_search(other_qualifiers[k], post.title)
                \/ word_search(other_qualifiers[k], post.commentary)
             THEN append_new(qualifiers, other_qualifiers[k])
             ELSE qualifiers)

\* A mutation of fresh_qualifiers: the list of the post before is kept.
carried_qualifiers(before) == before

\* qualifiers = [], whatever the list of the post before holds.
fresh_qualifiers(before) == << >>

\* The qualifiers of a post, given the list of the post before it.
qualifiers_of(post, before) ==
    LET q0 == fresh_qualifiers(before)
        q1 == IF IsSome(post.title_qualifier)
              THEN Append(q0, Lower(The(post.title_qualifier)))
              ELSE q0
        q2 == IF excellent_search(post.title) \/ excellent_search(post.commentary)
              THEN append_new(q1, "excellent")
              ELSE q1
    IN ScanOthers(post, 1, q2)

\* TextBlob(text).sentiment.polarity: a function of the text alone; here the
\* sign of the count of words of praise over words of blame.
polarity(text) ==
    LET praise == {i \in 1..Len(text) :
                      Letters(text[i]) \in {"great", "wonderful", "excellent"}}
        blame == {i \in 1..Len(text) : Letters(text[i]) \in {"dull"}}
    IN IF Cardinality(praise) > Cardinality(blame) THEN 1
       ELSE IF Cardinality(praise) < Cardinality(blame) THEN -1 ELSE 0

\* A mutation of has_commentary: the scorer is given every commentary.
any_commentary(commentary) == TRUE

\* ... if post['commentary'] else 0
has_commentary(commentary) == commentary # << >>

\* The dict appended to results for a post.
Annotated(post, qualifiers) ==
    [date |-> post.date,
     title |-> post.title,
     qualifiers |-> qualifiers,
     sentiment_score |-> IF has_commentary(post.commentary)
                         THEN polarity(post.commentary) ELSE 0,
     url |-> post.url,
     title_qualifier |-> post.title_qualifier,
     comment_count |-> post.comment_count,
     ends_with_recommended |-> post.ends_with_recommended]

\* for post in posts, from the i-th on: the results, and the texts the
\* scorer has been given.
RECURSIVE AnalyzeFrom(_, _, _, _, _)
AnalyzeFrom(posts, i, before, results, scored) ==
    IF i > Len(posts) THEN [results |-> results, scored |-> scored]
    ELSE LET qualifiers == qualifiers_of(posts[i], before)
         IN AnalyzeFrom(posts, i + 1, qualifiers,
                Append(results, Annotated(posts[i], qualifiers)),
                IF has_commentary(posts[i].commentary)
                THEN scored \cup {posts[i].commentary} ELSE scored)

\* The rows of the DataFrame analyze_posts returns, and the texts it gave to
\* the scorer.
analyze_posts(posts) == AnalyzeFrom(posts, 1, << >>, << >>, {})

\* ------------------------------------------------------- modelled markup
TitleQualified == << "My", "Excellent", "Conversation", "with", "X" >>
TitlePlain == << "Conversation", "with", "Y" >>
TitleOffTopic == << "Markets", "in", "everything" >>

Dated(y, m, d) == Some(TimeElem(Some(<< y, m, d >>)))
Link(u) == Some(Anchor(Some(u)))

\* Entries dated on or after the cutoff.
EntryNew(u) == Entry(Dated(2024, 3, 5), Some(TitleQualified), NoElem, Link(u))
EntryOnCutoff == Entry(Dated(2024, 1, 1), NoElem, Some(TitlePlain), NoElem)
EntryOffTopic == Entry(Dated(2024, 2, 29), Some(TitleOffTopic), NoElem, Link("off"))
EntryNoHeading == Entry(Dated(2024, 3, 1), NoElem, NoElem, Link("nohead"))
EntryNoHref == Entry(Dated(2024, 3, 2), Some(TitlePlain), NoElem, Some(Anchor(NoElem)))
\* Entries dated before the cutoff.
EntryOld == Entry(Dated(2023, 12, 31), Some(TitlePlain), NoElem, Link("old"))
EntryOldNoHeading == Entry(Dated(2022, 6, 30), NoElem, NoElem, NoElem)
\* Entries without a usable date: no <time>, an empty attribute, a date that
\* does not parse (2023 is no leap year).
EntryNoTime == Entry(NoElem, Some(TitlePlain), NoElem, Link("notime"))
EntryEmptyDatetime == Entry(Some(TimeElem(Some(<< >>))), Some(TitlePlain), NoElem, Link("nodt"))
EntryMalformed == Entry(Dated(2023, 2, 29), Some(TitlePlain), NoElem, Link("bad"))

EntryKinds ==
    {EntryNew("new"), EntryOnCutoff, EntryOffTopic, EntryNoHeading, EntryNoHref,
     EntryOld, EntryOldNoHeading, EntryNoTime, EntryEmptyDatetime, EntryMalformed}

\* The pages the modelled archive can serve.
PageThree == << EntryNew("a"), EntryNew("b"), EntryNew("c") >>
PageOldFirst == << EntryNoTime, EntryOld, EntryNew("late") >>
PageCut == << EntryOnCutoff, EntryOld, EntryNew("after") >>
PageMalformed == << EntryNew("m"), EntryMalformed >>
PageOffTopic == << EntryOffTopic, EntryNoHeading >>

\* The answers of the modelled archive to a fetch, by name, and what
\* fetch_page returns for each.
Outcomes ==
    {"None", "EmptyText", "PageThree", "PageOldFirst", "PageCut", "PageMalformed",
     "PageOffTopic"}

Html(answer) ==
    CASE answer = "None" -> None
      [] answer = "EmptyText" -> EmptyText
      [] answer = "PageThree" -> Markup(PageThree)
      [] answer = "PageOldFirst" -> Markup(PageOldFirst)
      [] answer = "PageCut" -> Markup(PageCut)
      [] answer = "PageMalformed" -> Markup(PageMalformed)
      [] answer = "PageOffTopic" -> Markup(PageOffTopic)

\* A future that has not finished holds no result.
Unfinished == "unfinished"

\* ------------------------------------------------------------------ state
VARIABLES
    max_pages,    \* get_blog_posts' argument
    site,         \* what the archive can answer the fetch of each page with
    pc,           \* where get_blog_posts is
    submitted,    \* number of urls passed to executor.submit so far
    queue,        \* the executor's work queue: submitted fetches not yet begun
    running,      \* fetches some worker thread is executing
    result,       \* the result of each future: the name of the archive's answer
    snap,         \* as_completed: futures found finished when iteration began
    waitq,        \* as_completed: futures finished since, in completion order
    consumed,     \* futures the loop has taken, in the order it took them
    all_posts,    \* the accumulation
    cut_running,  \* history: the fetches in flight when the loop broke
    cut_queued,   \* history: the fetches not yet begun when the loop broke
    entries_in,   \* page processor alone: the page handed to process_page
    page_pc,      \* page processor alone: "idle", "build" or "returned"
    page_out,     \* page processor alone: what process_page gave
    sec_in,       \* body sectioning alone: the content container, if any
    sec_pc,       \* body sectioning alone: "idle", "build" or "returned"
    sec_out,      \* body sectioning alone: what extract_content_sections gave
    cc_in,        \* comment count alone: the strings of the entry
    cc_pc,        \* comment count alone: "idle", "build" or "returned"
    cc_out,       \* comment count alone: what extract_comment_count gave
    an_posts,     \* annotation alone: the list handed to analyze_posts
    an_given,     \* annotation alone, history: that list as it was put together
    an_pc,        \* annotation alone: "idle", "build", "called" or "again"
    an_results,   \* annotation alone: the rows analyze_posts returned last
    an_prev,      \* annotation alone: the rows it returned the time before
    an_scored,    \* annotation alone, history: the texts given to the scorer
    leg_pc,       \* legacy crawl: "idle", "loop", "returned" or "raised"
    leg_page,     \* legacy crawl: page
    leg_posts,    \* legacy crawl: posts
    leg_fetched   \* legacy crawl, history: the archive's answer to each request

crawl_vars ==
    << max_pages, site, pc, submitted, queue, running, result, snap, waitq,
       consumed, all_posts, cut_running, cut_queued >>
page_vars == << entries_in, page_pc, page_out >>
sec_vars == << sec_in, sec_pc, sec_out >>
cc_vars == << cc_in, cc_pc, cc_out >>
an_vars == << an_posts, an_given, an_pc, an_results, an_prev, an_scored >>
leg_vars == << leg_pc, leg_page, leg_posts, leg_fetched >>
unit_vars == << sec_vars, cc_vars, an_vars, leg_vars >>
vars == << crawl_vars, page_vars, unit_vars >>

\* urls = [... for page in range(1, max_pages + 1)], by page index
urls == 1..max_pages

Range(seq) == {seq[i] : i \in 1..Len(seq)}

\* ---------------------------------------------------------- the coordinator
\* all_posts.extend(posts), mutated: the accumulation is overwritten.
assign(acc, posts) == posts

\* all_posts.extend(posts), mutated: the posts are added twice.
extend_twice(acc, posts) == acc \o posts \o posts

\* all_posts.extend(posts)
extend(acc, posts) == acc \o posts

\* The loop's exit test, mutated: a page without markup ends the crawl, as an
\* empty page ends the legacy crawl.
breaks_on_no_markup(html, reached_cutoff) == ~Truthy(html) \/ reached_cutoff

\* "if html: ... if reached_cutoff: break"
breaks(html, reached_cutoff) == Truthy(html) /\ reached_cutoff

\* LoopBody without its except clause: an exception of process_page leaves
\* the loop.
LoopBodyUncaught(html, acc) ==
    LET r == process_page(html, cutoff_date)
        done == Truthy(html) /\ ~r.raised
    IN [all_posts |-> IF done THEN extend(acc, r.posts) ELSE acc,
        brk |-> (Truthy(html) /\ r.raised) \/ breaks(html, done /\ r.reached)]

\* One pass of the body of "for future in as_completed(...)" on a result:
\* the accumulation after it and whether the loop is left.  An exception of
\* process_page is caught by "except Exception" before extend is reached.
LoopBody(html, acc) ==
    LET r == process_page(html, cutoff_date)
        done == Truthy(html) /\ ~r.raised
    IN [all_posts |-> IF done THEN extend(acc, r.posts) ELSE acc,
        brk |-> breaks(html, done /\ r.reached)]

\* executor.submit(fetch_page, url, headers) for the next url
Submit ==
    /\ pc = "submit"
    /\ submitted < max_pages
    /\ submitted' = submitted + 1
    /\ queue' = Append(queue, submitted + 1)
    /\ UNCHANGED << max_pages, site, pc, running, result, snap, waitq, consumed,
                    all_posts, cut_running, cut_queued, page_vars, unit_vars >>

\* as_completed(future_to_url) begins: the futures already finished are set
\* aside, to be yielded first, in no particular order.
AsCompleted ==
    /\ pc = "submit"
    /\ submitted = max_pages
    /\ pc' = "loop"
    /\ snap' = {p \in urls : result[p] # Unfinished}
    /\ UNCHANGED << max_pages, site, submitted, queue, running, result, waitq,
                    consumed, all_posts, cut_running, cut_queued, page_vars, unit_vars >>

\* The future as_completed may yield next.
Yields(p) ==
    IF snap # {} THEN p \in snap
    ELSE waitq # << >> /\ p = Head(waitq)

\* One iteration of the loop, on the future as_completed yields: the try
\* block with its except and finally clauses.  The body is evaluated once
\* and bound to step.
Consume(p) ==
    /\ pc = "loop"
    /\ Yields(p)
    /\ \E step \in {LoopBody(Html(result[p]), all_posts)} :
         /\ all_posts' = step.all_posts
         /\ pc' = IF step.brk THEN "shutdown" ELSE "loop"
         /\ cut_running' = IF step.brk THEN running ELSE cut_running
         /\ cut_queued' = IF step.brk THEN Range(queue) ELSE cut_queued
    /\ snap' = snap \ {p}
    /\ waitq' = IF snap # {} THEN waitq ELSE Tail(waitq)
    /\ consumed' = Append(consumed, p)
    /\ UNCHANGED << max_pages, site, submitted, queue, running, result, page_vars, unit_vars >>

\* as_completed has yielded every future: the loop ends.
Exhausted == Len(consumed) = max_pages

LoopEnd ==
    /\ pc = "loop"
    /\ Exhausted
    /\ pc' = "shutdown"
    /\ UNCHANGED << max_pages, site, submitted, queue, running, result, snap, waitq,
                    consumed, all_posts, cut_running, cut_queued, page_vars, unit_vars >>

\* The pool's exit, mutated: it also waits for every result to be taken.
PoolIdleAndConsumed == queue = << >> /\ running = {} /\ Len(consumed) = max_pages

\* What executor.shutdown(wait=True) waits for: every worker thread has left,
\* which it does once the work queue is empty and its own fetch is over.
PoolIdle == queue = << >> /\ running = {}

\* The with block of the executor is left and all_posts is returned.
Shutdown ==
    /\ pc = "shutdown"
    /\ PoolIdle
    /\ pc' = "done"
    /\ UNCHANGED << max_pages, site, submitted, queue, running, result, snap, waitq,
                    consumed, all_posts, cut_running, cut_queued, page_vars, unit_vars >>

\* -------------------------------------------------------- the worker threads
\* The start test, mutated: the pool has no limit.
CanStartUnbounded == queue # << >>

\* A worker thread is free to take the head of the work queue.
CanStart == queue # << >> /\ Cardinality(running) < max_workers

\* A worker thread takes the next fetch.  Shutting the pool down does not
\* cancel queued fetches: they are still taken.
Start ==
    /\ pc \in {"submit", "loop", "shutdown"}
    /\ CanStart
    /\ running' = running \cup {Head(queue)}
    /\ queue' = Tail(queue)
    /\ UNCHANGED << max_pages, site, pc, submitted, result, snap, waitq, consumed,
                    all_posts, cut_running, cut_queued, page_vars, unit_vars >>

\* fetch_page returns in a worker thread: the text of the response, or None
\* after any exception; the future finishes and as_completed's waiter, while
\* it is installed, is told.
Finish(p, answer) ==
    /\ p \in running
    /\ answer \in site[p]
    /\ result' = [result EXCEPT ![p] = answer]
    /\ running' = running \ {p}
    /\ waitq' = IF pc = "loop" THEN Append(waitq, p) ELSE waitq
    /\ UNCHANGED << max_pages, site, pc, submitted, queue, snap, consumed,
                    all_posts, cut_running, cut_queued, page_vars, unit_vars >>

Coordinator ==
    \/ Submit
    \/ AsCompleted
    \/ \E p \in urls : Consume(p)
    \/ LoopEnd
    \/ Shutdown

Workers ==
    \/ Start
    \/ \E p \in urls : \E answer \in site[p] : Finish(p, answer)

Next == Coordinator \/ Workers

CrawlStart(n, archive) ==
    /\ max_pages = n
    /\ site = archive
    /\ pc = "submit"
    /\ submitted = 0
    /\ queue = << >>
    /\ running = {}
    /\ result = [p \in 1..n |-> Unfinished]
    /\ snap = {}
    /\ waitq = << >>
    /\ consumed = << >>
    /\ all_posts = << >>
    /\ cut_running = {}
    /\ cut_queued = {}

PageIdle ==
    /\ entries_in = << >>
    /\ page_pc = "idle"
    /\ page_out = Return(<< >>, FALSE)

SectionIdle ==
    /\ sec_in = Some(<< >>)
    /\ sec_pc = "idle"
    /\ sec_out = [commentary |-> << >>, ends_with_recommended |-> FALSE]

CommentIdle ==
    /\ cc_in = << >>
    /\ cc_pc = "idle"
    /\ cc_out = 0

AnnotationIdle ==
    /\ an_posts = << >>
    /\ an_given = << >>
    /\ an_pc = "idle"
    /\ an_results = << >>
    /\ an_prev = << >>
    /\ an_scored = {}

LegacyIdle ==
    /\ leg_pc = "idle"
    /\ leg_page = 1
    /\ leg_posts = << >>
    /\ leg_fetched = << >>

UnitsIdle == SectionIdle /\ CommentIdle /\ AnnotationIdle /\ LegacyIdle

Init ==
    /\ \E n \in 1..MaxPages : CrawlStart(n, [p \in 1..n |-> Outcomes])
    /\ PageIdle
    /\ UnitsIdle

Spec == Init /\ [][Next]_vars

\* The archive of the crawls checked for termination: a fetch fails, or
\* serves a page of three posts, a page that reaches the cutoff or a page on
\* which process_page raises.
FairArchive(n) == [p \in 1..n |-> {"None", "PageThree", "PageCut", "PageMalformed"}]

FairInit ==
    /\ \E n \in 1..MaxPages : CrawlStart(n, FairArchive(n))
    /\ PageIdle
    /\ UnitsIdle

\* The coordinator's thread keeps running; every worker thread keeps running
\* and every fetch returns (requests.get is given a timeout).
FairSpec == FairInit /\ [][Next]_vars /\ WF_vars(Coordinator) /\ WF_vars(Workers)

\* ------------------------------------------------- the crawl of a full pool
\* A crawl of more pages than the pool has threads, in an archive whose
\* last page reaches the cutoff, unless its fetch fails, and whose other pages
\* hold three posts each.
PoolArchive(n) ==
    [p \in 1..n |-> IF p = n THEN {"PageCut", "None"} ELSE {"PageThree"}]

PoolInit ==
    /\ CrawlStart(max_workers + ExtraPages, PoolArchive(max_workers + ExtraPages))
    /\ PageIdle
    /\ UnitsIdle

SpecPool == PoolInit /\ [][Next]_vars

\* ------------------------------------------------ the page processor alone
\* A page is put together entry by entry and handed to process_page.
AppendEntry(e) ==
    /\ page_pc = "build"
    /\ Len(entries_in) < MaxFrags
    /\ entries_in' = Append(entries_in, e)
    /\ UNCHANGED << page_pc, page_out, crawl_vars, unit_vars >>

CallProcessPage ==
    /\ page_pc = "build"
    /\ page_out' = process_page(Markup(entries_in), cutoff_date)
    /\ page_pc' = "returned"
    /\ UNCHANGED << entries_in, crawl_vars, unit_vars >>

PageNext ==
    \/ \E e \in EntryKinds : AppendEntry(e)
    \/ CallProcessPage

PageInit ==
    /\ CrawlStart(1, [p \in 1..1 |-> {"None"}])
    /\ entries_in = << >>
    /\ page_pc = "build"
    /\ page_out = Return(<< >>, FALSE)
    /\ UnitsIdle

SpecPage == PageInit /\ [][PageNext]_vars

\* -------------------------------------------------- body sectioning alone
\* The children a content container is put together from: a blockquote, a
\* paragraph of one string, a paragraph of several, a div whose string has
\* whitespace around it, a span, the whitespace between two tags, and the
\* marker word as text.
Blockquote == Tag("blockquote", << "q" >>)
Para == Tag("p", << "a" >>)
ParaOfSeveral == TagOfSeveral("p", << << "b" >>, << "c" >> >>)
DivPadded == Tag("div", << Space, "d", Space >>)
Span == Tag("span", << "s" >>)
Whitespace == NavigableString(<< Space >>)
MarkerText == NavigableString(<< "Recommended" >>)

NodeKinds ==
    {Blockquote, Para, ParaOfSeveral, DivPadded, Span, Whitespace, MarkerText}

\* An entry that has nothing but what it is given here.
BareEntry == Entry(NoElem, NoElem, NoElem, NoElem)

AppendNode(n) ==
    /\ sec_pc = "build"
    /\ IsSome(sec_in)
    /\ Len(The(sec_in)) < MaxNodes
    /\ sec_in' = Some(Append(The(sec_in), n))
    /\ UNCHANGED << sec_pc, sec_out, crawl_vars, page_vars, cc_vars, an_vars, leg_vars >>

\* The entry has no <div class="entry-content">.
NoContentDiv ==
    /\ sec_pc = "build"
    /\ sec_in = Some(<< >>)
    /\ sec_in' = NoElem
    /\ UNCHANGED << sec_pc, sec_out, crawl_vars, page_vars, cc_vars, an_vars, leg_vars >>

CallExtractContentSections ==
    /\ sec_pc = "build"
    /\ sec_out' = extract_content_sections(WithBody(BareEntry, sec_in, << >>))
    /\ sec_pc' = "returned"
    /\ UNCHANGED << sec_in, crawl_vars, page_vars, cc_vars, an_vars, leg_vars >>

SectionNext ==
    \/ \E n \in NodeKinds : AppendNode(n)
    \/ NoContentDiv
    \/ CallExtractContentSections

SectionInit ==
    /\ CrawlStart(1, [p \in 1..1 |-> {"None"}])
    /\ PageIdle
    /\ sec_in = Some(<< >>)
    /\ sec_pc = "build"
    /\ sec_out = [commentary |-> << >>, ends_with_recommended |-> FALSE]
    /\ CommentIdle
    /\ AnnotationIdle
    /\ LegacyIdle

SpecSection == SectionInit /\ [][SectionNext]_vars

\* ---------------------------------------------------- comment count alone
\* The strings an entry is put together from.
EightComments == << "8", "Comments" >>
OneComment == << "Comment" >>
TwelveUpdated == << "12", "Comments,", "updated" >>
ThreePadded == << Space, "3", "Comments", Space >>
NoComment == << "No", "Comment" >>
LeaveReply == << "Leave", "a", "reply" >>

StringKinds ==
    {EightComments, OneComment, TwelveUpdated, ThreePadded, NoComment,
     LeaveReply, << Space >>}

AppendString(t) ==
    /\ cc_pc = "build"
    /\ Len(cc_in) < MaxStrings
    /\ cc_in' = Append(cc_in, t)
    /\ UNCHANGED << cc_pc, cc_out, crawl_vars, page_vars, sec_vars, an_vars, leg_vars >>

CallExtractCommentCount ==
    /\ cc_pc = "build"
    /\ cc_out' = extract_comment_count(WithBody(BareEntry, NoElem, cc_in))
    /\ cc_pc' = "returned"
    /\ UNCHANGED << cc_in, crawl_vars, page_vars, sec_vars, an_vars, leg_vars >>

CommentNext ==
    \/ \E t \in StringKinds : AppendString(t)
    \/ CallExtractCommentCount

CommentInit ==
    /\ CrawlStart(1, [p \in 1..1 |-> {"None"}])
    /\ PageIdle
    /\ SectionIdle
    /\ cc_in = << >>
    /\ cc_pc = "build"
    /\ cc_out = 0
    /\ AnnotationIdle
    /\ LegacyIdle

SpecComment == CommentInit /\ [][CommentNext]_vars

\* ------------------------------------------------------- annotation alone
\* The titles and bodies of the posts handed to analyze_posts: a title whose
\* qualifier is "Excellent", one whose qualifier is one of the other fixed
\* qualifiers, one whose qualifier is none of them, and one without; a body
\* that holds "excellent" inside a word and two of the other qualifiers, a
\* body that holds one only inside a longer word, and no body.
TitleGreat == << "My", "Great", "Conversation", "with", "Z" >>
TitleLong == << "My", "Long", "Conversation", "with", "W" >>

BodyPraise ==
    << << Tag("p", << "A", "great", "and", "Excellently", "wonderful!", "chat" >>) >> >>
BodyGreatly == << << Tag("p", << "greatly", "dull" >>) >> >>

\* The post process_page makes of an entry of the given title and body.
PostOf(title, body) ==
    process_page(
        Markup(<< WithBody(Entry(Dated(2024, 3, 5), Some(title), NoElem, Link("u")),
                           body, << EightComments >>) >>),
        cutoff_date).posts[1]

PostKinds ==
    {PostOf(title, body) :
        title \in {TitleQualified, TitleGreat, TitleLong, TitlePlain},
        body \in {BodyPraise, BodyGreatly, NoElem}}

AppendPost(post) ==
    /\ an_pc = "build"
    /\ Len(an_posts) < MaxPosts
    /\ an_posts' = Append(an_posts, post)
    /\ an_given' = Append(an_given, post)
    /\ UNCHANGED << an_pc, an_results, an_prev, an_scored, crawl_vars, page_vars,
                   sec_vars, cc_vars, leg_vars >>

\* analyze_posts(posts), a first and a second time on the same list.
CallAnalyzePosts ==
    /\ an_pc \in {"build", "called"}
    /\ \E out \in {analyze_posts(an_posts)} :
          /\ an_results' = out.results
          /\ an_scored' = an_scored \cup out.scored
    /\ an_prev' = an_results
    /\ an_pc' = IF an_pc = "build" THEN "called" ELSE "again"
    /\ UNCHANGED << an_posts, an_given, crawl_vars, page_vars, sec_vars, cc_vars, leg_vars >>

AnnotationNext ==
    \/ \E post \in PostKinds : AppendPost(post)
    \/ CallAnalyzePosts

AnnotationInit ==
    /\ CrawlStart(1, [p \in 1..1 |-> {"None"}])
    /\ PageIdle
    /\ SectionIdle
    /\ CommentIdle
    /\ an_posts = << >>
    /\ an_given = << >>
    /\ an_pc = "build"
    /\ an_results = << >>
    /\ an_prev = << >>
    /\ an_scored = {}
    /\ LegacyIdle

SpecAnnotation == AnnotationInit /\ [][AnnotationNext]_vars

\* ------------------------------------- the legacy crawl (cwt_post_analysis)
\* cutoff_date = datetime(2023, 1, 1)
legacy_cutoff_date == DateOf(2023, 1, 1)

\* 'my conversation with' in title.lower()
legacy_topical(title) ==
    \E i \in 1..(Len(title) - 2) :
        /\ EndsWithMy(title[i])
        /\ Lower(title[i + 1]) = "conversation"
        /\ Lower(title[i + 2]) = "with"

\* entry.find('h1').text.strip() if entry.find('h1') else ''
legacy_title(entry) == IF IsSome(entry.h1) THEN strip(The(entry.h1)) ELSE << >>

\* The text of the content container, stripped, or ''.
legacy_content(entry) ==
    IF IsSome(entry.content) THEN strip(get_text(The(entry.content))) ELSE << >>

\* The dict the legacy crawl appends for an entry.
LegacyPost(entry, post_date) ==
    [date |-> post_date,
     title |-> legacy_title(entry),
     content |-> legacy_content(entry),
     url |-> url_of(entry)]

\* "for entry in entries" of the legacy crawl from entry i on: the loop ends
\* ("next"), the function returns ("return"), or an exception leaves it.
RECURSIVE LegacyScan(_, _, _)
LegacyScan(entries, i, posts) ==
    IF i > Len(entries) THEN [how |-> "next", posts |-> posts]
    ELSE LET entry == entries[i] IN
      IF ~HasDatetime(entry) THEN LegacyScan(entries, i + 1, posts)
      ELSE LET parsed == strptime(The(The(entry.time).datetime)) IN
        IF ~parsed.ok THEN [how |-> "raise", posts |-> posts]
        ELSE IF parsed.date < legacy_cutoff_date
        THEN [how |-> "return", posts |-> posts]
        ELSE IF ~legacy_topical(legacy_title(entry))
        THEN LegacyScan(entries, i + 1, posts)
        ELSE IF HrefRaises(entry) THEN [how |-> "raise", posts |-> posts]
        ELSE LegacyScan(entries, i + 1,
                        Append(posts, LegacyPost(entry, parsed.date)))

\* The entries of the pages the legacy crawl is served.
TitleLegacy == << "My", "Conversation", "with", "V" >>
LegacyNew(u) == Entry(Dated(2024, 3, 5), Some(TitleLegacy), NoElem, Link(u))
LegacyOld == Entry(Dated(2022, 6, 30), Some(TitleLegacy), NoElem, Link("old"))
LegacyMalformed == Entry(Dated(2023, 2, 29), Some(TitleLegacy), NoElem, Link("bad"))

\* What a request is answered with: a page of entries, named, or the
\* exception requests.get raises.
LegacyAnswers ==
    {"LegacyTwo", "LegacyMixed", "LegacyOffTopic", "LegacyCut", "LegacyEmpty",
     "LegacyBadDate", "LegacyBadLink", "Error"}

LegacyEntries(answer) ==
    CASE answer = "LegacyTwo" -> << LegacyNew("a"), EntryNew("off"), LegacyNew("b") >>
      [] answer = "LegacyMixed" ->
            << Entry(NoElem, Some(TitleLegacy), NoElem, Link("undated")),
               Entry(Dated(2024, 1, 1), NoElem, Some(TitleLegacy), Link("h2")),
               LegacyNew("c") >>
      [] answer = "LegacyOffTopic" -> << EntryNew("x"), EntryOld >>
      [] answer = "LegacyCut" -> << LegacyNew("d"), LegacyOld, LegacyNew("e") >>
      [] answer = "LegacyEmpty" -> << >>
      [] answer = "LegacyBadDate" -> << LegacyNew("m"), LegacyMalformed >>
      [] answer = "LegacyBadLink" ->
            << Entry(Dated(2024, 3, 2), Some(TitleLegacy), NoElem, Some(Anchor(NoElem))) >>
      [] OTHER -> << >>

\* One pass of "while True": the request, the empty-page test, the scan of
\* the entries, page += 1.
LegacyIteration(answer) ==
    /\ leg_pc = "loop"
    /\ leg_page <= MaxLegacyPages
    /\ leg_fetched' = Append(leg_fetched, answer)
    /\ \E scan \in {LegacyScan(LegacyEntries(answer), 1, leg_posts)} :
          IF answer = "Error"
          THEN leg_pc' = "raised" /\ UNCHANGED << leg_page, leg_posts >>
          ELSE IF LegacyEntries(answer) = << >>
          THEN leg_pc' = "returned" /\ UNCHANGED << leg_page, leg_posts >>
          ELSE IF scan.how = "raise"
          THEN leg_pc' = "raised" /\ UNCHANGED << leg_page, leg_posts >>
          ELSE IF scan.how = "return"
          THEN leg_pc' = "returned" /\ leg_posts' = scan.posts /\ UNCHANGED leg_page
          ELSE leg_pc' = "loop" /\ leg_posts' = scan.posts /\ leg_page' = leg_page + 1
    /\ UNCHANGED << crawl_vars, page_vars, sec_vars, cc_vars, an_vars >>

LegacyNext == \E answer \in LegacyAnswers : LegacyIteration(answer)

LegacyInit ==
    /\ CrawlStart(1, [p \in 1..1 |-> {"None"}])
    /\ PageIdle
    /\ SectionIdle
    /\ CommentIdle
    /\ AnnotationIdle
    /\ leg_pc = "loop"
    /\ leg_page = 1
    /\ leg_posts = << >>
    /\ leg_fetched = << >>

SpecLegacy == LegacyInit /\ [][LegacyNext]_vars

\* ----------------------------------------------------- what the claims use
\* The posts a consumed result is to contribute: those process_page returns;
\* none when there is no markup or process_page raises.
ReturnedPosts(html) ==
    LET r == process_page(html, cutoff_date)
    IN IF Truthy(html) /\ ~r.raised THEN r.posts ELSE << >>

\* Whether process_page returns the cutoff signal for a result.
SignalsCutoff(html) ==
    LET r == process_page(html, cutoff_date)
    IN Truthy(html) /\ ~r.raised /\ r.reached

RECURSIVE ConcatReturned(_, _)
ConcatReturned(res, order) ==
    IF order = << >> THEN << >>
    ELSE ReturnedPosts(Html(res[Head(order)])) \o ConcatReturned(res, Tail(order))

\* An entry whose date is present and parses.
HasParseableDate(entry) ==
    HasDatetime(entry) /\ strptime(The(The(entry.time).datetime)).ok

DateOfEntry(entry) == strptime(The(The(entry.time).datetime)).date

\* An entry a post is built from: dated on or after the cutoff, with a
\* heading whose text holds "conversation".
IsTopicalAndCurrent(entry) ==
    /\ HasParseableDate(entry)
    /\ DateOfEntry(entry) >= cutoff_date
    /\ IsSome(title_elem(entry))
    /\ \E k \in 1..Len(The(title_elem(entry))) : HasConversation(The(title_elem(entry))[k])

\* The posts of the entries of a sequence, in document order.
RECURSIVE PostsOfEntries(_)
PostsOfEntries(entries) ==
    IF entries = << >> THEN << >>
    ELSE LET e == Head(entries) IN
         (IF IsTopicalAndCurrent(e)
            THEN << Post(e, DateOfEntry(e), The(title_elem(e))) >>
            ELSE << >>) \o PostsOfEntries(Tail(entries))

\* C1: in a crawl of two pages where page 1 holds three topical posts dated
\* on or after the cutoff and the first dated entry of page 2 is before the
\* cutoff, the crawl returns exactly the three posts of page 1 (no valid post
\* precedes the cutoff entry of page 2), in every completion order.
C1_TwoPageArchive ==
    (/\ pc = "done"
     /\ max_pages = 2
     /\ result[1] = "PageThree"
     /\ result[2] = "PageOldFirst")
    => all_posts = PostsOfEntries(PageThree)

\* C2: every accumulated post is the post of an entry of a consumed page
\* whose title matches the topical pattern and whose date is on or after the
\* cutoff; it carries that date and that title.
C2_OnlyTopicalCurrentPosts ==
    \A i \in 1..Len(all_posts) :
        /\ all_posts[i].date >= cutoff_date
        /\ \E k \in 1..Len(all_posts[i].title) : HasConversation(all_posts[i].title[k])
        /\ \E p \in Range(consumed) : \E j \in 1..Len(Html(result[p]).articles) :
              LET e == Html(result[p]).articles[j] IN
                /\ IsTopicalAndCurrent(e)
                /\ ~HrefRaises(e)
                /\ all_posts[i] = Post(e, DateOfEntry(e), The(title_elem(e)))

\* C2's case: the crawl is over, it consumed a page holding an entry before
\* the cutoff and a page holding an off-topic entry, and it accumulated posts.
C2_Witness ==
    /\ pc = "done"
    /\ all_posts # << >>
    /\ \E p \in Range(consumed) : result[p] = "PageCut"
    /\ \E p \in Range(consumed) : result[p] = "PageOffTopic"

\* C3: the posts of the pages whose fetches were in flight when the loop
\* observed the cutoff signal are in the result the crawl returns.
C3_InFlightIncorporated ==
    pc = "done" =>
        \A p \in cut_running :
            \A k \in 1..Len(ReturnedPosts(Html(result[p]))) :
                ReturnedPosts(Html(result[p]))[k] \in Range(all_posts)

\* C4: a page whose fetch had not begun when the loop observed the cutoff
\* signal is never fetched: it stays in the work queue.
C4_NoNewWorkAfterCutoff ==
    \A p \in cut_queued : p \in Range(queue)

\* The iteration that takes a failed fetch (None, or an empty text) leaves
\* the accumulation as it is and stays in the loop.
FailedFetchStep ==
    \A p \in urls :
        (pc = "loop" /\ consumed' = Append(consumed, p) /\ ~Truthy(Html(result[p])))
        => (all_posts' = all_posts /\ pc' = "loop")

\* The loop is only ever left with every future taken or after a page that
\* signalled the cutoff.
LoopLeftOnlyAtEndOrCutoff ==
    pc \in {"shutdown", "done"} =>
        \/ Len(consumed) = max_pages
        \/ consumed # << >> /\ SignalsCutoff(Html(result[consumed[Len(consumed)]]))

\* C5: a failed fetch is not fatal: the iteration that takes it leaves the
\* accumulation unchanged and raises nothing, the loop goes on, and it is
\* never a failed fetch that ends the loop, so the results of the other
\* fetches are still taken and accumulated.
C5_TransportFailureNonFatal ==
    [][FailedFetchStep]_vars /\ []LoopLeftOnlyAtEndOrCutoff

\* C5's case: the crawl is over; a failed fetch was taken and the result of
\* a page taken after it was accumulated.
C5_Witness ==
    /\ pc = "done"
    /\ \E i, j \in 1..Len(consumed) :
          /\ i < j
          /\ result[consumed[i]] = "None"
          /\ ReturnedPosts(Html(result[consumed[j]])) # << >>
    /\ all_posts # << >>

\* C6: when every fetch returns, get_blog_posts returns.
C6_Terminates == <>(pc = "done")

\* C6's case: the crawl has returned after failed fetches, with the cutoff
\* signal observed before every future was taken.
C6_Witness ==
    /\ pc = "done"
    /\ max_pages = MaxPages
    /\ \E p \in urls : result[p] = "None"
    /\ Len(consumed) < max_pages

\* C7: at most max_workers fetches are in flight.
C7_AtMostFiveInFlight == Cardinality(running) <= 5

\* C7's case: the pool is full and a submitted fetch waits in the queue.
C7_Witness == Cardinality(running) = 5 /\ queue # << >>

\* C8: the accumulation is the concatenation, in the order the loop took
\* them, of the posts process_page returned for the results taken so far.
C8_NoLostUpdates == all_posts = ConcatReturned(result, consumed)

\* C8's case: a page that signals the cutoff was taken after a page whose
\* posts had been accumulated, and both pages' posts are in the result.
C8_Witness ==
    /\ pc = "done"
    /\ \E i, j \in 1..Len(consumed) :
          /\ i < j
          /\ result[consumed[i]] = "PageThree"
          /\ result[consumed[j]] = "PageCut"
    /\ Len(all_posts) >= 4

\* C9: an entry whose date is absent or does not parse is skipped and
\* nothing else: process_page gives what it gives for the page without
\* these entries.
C9_UndatedEntrySkipped ==
    page_pc = "returned" =>
        page_out = process_page(Markup(SelectSeq(entries_in, HasParseableDate)),
                                cutoff_date)

\* C10: process_page returns; it returns cutoff_reached = true exactly when
\* the page holds an entry with a parseable date before the cutoff, then with
\* the posts of the entries before the first such entry, and otherwise with
\* the posts of all entries.
C10_ProcessPageResult ==
    page_pc = "returned" =>
        LET old == {i \in 1..Len(entries_in) :
                       /\ HasParseableDate(entries_in[i])
                       /\ DateOfEntry(entries_in[i]) < cutoff_date}
            scanned == IF old = {} THEN entries_in
                       ELSE SubSeq(entries_in, 1,
                                   (CHOOSE i \in old : \A j \in old : i <= j) - 1)
        IN /\ ~page_out.raised
           /\ page_out.reached = (old # {})
           /\ page_out.posts = PostsOfEntries(scanned)

\* The entry carries a date: a <time> with a datetime attribute that is
\* not empty.
CarriesDate(entry) ==
    /\ entry.time # << >>
    /\ entry.time[1].datetime # << >>
    /\ entry.time[1].datetime[1] # << >>

\* The entry has neither an <h1> nor an <h2>.
Headless(entry) == entry.h1 = << >> /\ entry.h2 = << >>

\* A sequence without its i-th element.
Without(seq, i) == SubSeq(seq, 1, i - 1) \o SubSeq(seq, i + 1, Len(seq))

RECURSIVE Count(_, _)
Count(seq, x) ==
    IF seq = << >> THEN 0
    ELSE (IF Head(seq) = x THEN 1 ELSE 0) + Count(Tail(seq), x)

\* The number of times x occurs in the posts returned for the pages of S.
RECURSIVE CountIn(_, _)
CountIn(S, x) ==
    IF S = {} THEN 0
    ELSE LET p == CHOOSE q \in S : TRUE
         IN Count(ReturnedPosts(Html(result[p])), x) + CountIn(S \ {p}, x)

\* all_posts holds, as a multiset, exactly the posts returned for the pages
\* of S, those of each page once.
HoldsPagesOf(S) ==
    \A x \in Range(all_posts) \cup
             UNION {Range(ReturnedPosts(Html(result[p]))) : p \in S} :
        Count(all_posts, x) = CountIn(S, x)

\* Every fetch gave markup that process_page returns for without the cutoff
\* signal.
AllSucceedNoCutoff ==
    \A p \in urls :
        LET r == process_page(Html(result[p]), cutoff_date)
        IN Truthy(Html(result[p])) /\ ~r.raised /\ ~r.reached

\* C18: the returned list holds, as a multiset, the whole output of
\* process_page for some of the pages and nothing else; when every fetch and
\* every page succeeds and no page signals the cutoff, for all of the pages,
\* in whatever order the fetches complete.
C18_ResultIsUnionOfPages ==
    pc = "done" =>
        /\ \E S \in SUBSET urls : HoldsPagesOf(S)
        /\ AllSucceedNoCutoff => HoldsPagesOf(urls)

\* C18's case: every page gave three posts, the last page was taken first,
\* and the crawl returned the posts of all pages.
C18_Witness ==
    /\ pc = "done"
    /\ max_pages >= 2
    /\ \A p \in urls : result[p] = "PageThree"
    /\ consumed[1] = max_pages
    /\ Len(all_posts) = 3 * max_pages

\* The iteration that takes a page on which process_page raises leaves the
\* accumulation as it is and stays in the loop.
RaisingPageStep ==
    \A p \in urls :
        (/\ pc = "loop"
         /\ consumed' = Append(consumed, p)
         /\ Truthy(Html(result[p]))
         /\ process_page(Html(result[p]), cutoff_date).raised)
        => (all_posts' = all_posts /\ pc' = "loop")

\* C19: an exception of process_page does not leave get_blog_posts: the
\* page adds nothing to the accumulation, not even the posts of its entries
\* before the failing one, the loop goes on, and it is never such a page that
\* ends the loop.
C19_ProcessingExceptionContained ==
    [][RaisingPageStep]_vars /\ []LoopLeftOnlyAtEndOrCutoff

\* C19's case: the crawl is over; a page whose second entry makes
\* process_page raise was taken, the post of its first entry is not in the
\* result, and the posts of a page taken after it are.
C19_Witness ==
    /\ pc = "done"
    /\ \E i, j \in 1..Len(consumed) :
          /\ i < j
          /\ result[consumed[i]] = "PageMalformed"
          /\ result[consumed[j]] = "PageThree"
    /\ \A k \in 1..Len(all_posts) : all_posts[k].url # "m"
    /\ Len(all_posts) >= 3

\* The words that speak of comments.
MentionsComment(text) ==
    \E i \in 1..Len(text) : text[i] \in {"Comment", "Comments", "Comments,"}

\* The comment text of a fragment: the first of its strings that speaks of
\* comments, without the whitespace around it.
RECURSIVE CommentTextOf(_)
CommentTextOf(strings) ==
    IF strings = << >> THEN << >>
    ELSE IF MentionsComment(Head(strings)) THEN << strip(Head(strings)) >>
    ELSE CommentTextOf(Tail(strings))

\* C13: the comment count of a fragment is 8 when its comment text is
\* "8 Comments", 1 when it is "Comment", 12 when it is "12 Comments, updated"
\* and 0 when it has none; it is never negative.
C13_CommentCountParsing ==
    cc_pc = "returned" =>
        LET t == CommentTextOf(cc_in)
        IN /\ cc_out \in Nat
           /\ t = << >> => cc_out = 0
           /\ t = << << "8", "Comments" >> >> => cc_out = 8
           /\ t = << << "Comment" >> >> => cc_out = 1
           /\ t = << << "12", "Comments,", "updated" >> >> => cc_out = 12

IsBlockquote(n) == n.name = << "blockquote" >>
IsParaOrDiv(n) == n.name \in {<< "p" >>, << "div" >>}

\* The flag is clear when the i-th child is handled: every blockquote before
\* it has a paragraph or div after it that is the i-th child or comes before
\* it.
FlagClearAt(contents, i) ==
    \A b \in 1..(i - 1) :
        IsBlockquote(contents[b])
        => \E j \in (b + 1)..i : IsParaOrDiv(contents[j])

\* The text the i-th child adds to the commentary.
TextAddedBy(contents, i) ==
    IF /\ ~IsBlockquote(contents[i])
       /\ FlagClearAt(contents, i)
       /\ contents[i].string # << >>
    THEN strip(contents[i].string[1])
    ELSE << >>

RECURSIVE TextAddedFrom(_, _)
TextAddedFrom(contents, i) ==
    IF i > Len(contents) THEN << >>
    ELSE TextAddedBy(contents, i) \o TextAddedFrom(contents, i + 1)

\* C16: the commentary is the text, in document order, of the children of
\* the content container that are not blockquotes and are handled with the
\* flag clear, where a blockquote sets the flag and the next paragraph or div
\* clears it; a child between a blockquote and the next paragraph or div
\* adds nothing.
C16_SectioningWalk ==
    (sec_pc = "returned" /\ sec_in # << >>)
    => sec_out.commentary = TextAddedFrom(sec_in[1], 1)

\* C16's case: a span lies between a blockquote and the div that follows it;
\* the commentary is the paragraph before them and the div.
C16_Witness ==
    /\ sec_pc = "returned"
    /\ sec_in = << << Para, Blockquote, Span, DivPadded >> >>
    /\ sec_out.commentary = << "a", "d" >>

\* The commentary of a content container of the given children.
CommentaryOf(contents) ==
    extract_content_sections(WithBody(BareEntry, << contents >>, << >>)).commentary

\* The first paragraph or div after the b-th child, or 0.
NextParaOrDiv(contents, b) ==
    LET later == {j \in (b + 1)..Len(contents) : IsParaOrDiv(contents[j])}
    IN IF later = {} THEN 0 ELSE CHOOSE j \in later : \A k \in later : j <= k

\* C17 as stated: a blockquote, and every child up to and including the next
\* paragraph or div, add nothing to the commentary: it is the commentary of
\* the children before the blockquote followed by that of the children after
\* that paragraph or div.
C17_ExcludedThroughNextBlock ==
    (sec_pc = "returned" /\ sec_in # << >>) =>
        LET c == sec_in[1]
        IN \A b \in 1..Len(c) :
              (IsBlockquote(c[b]) /\ NextParaOrDiv(c, b) # 0)
              => sec_out.commentary =
                    CommentaryOf(SubSeq(c, 1, b - 1))
                    \o CommentaryOf(SubSeq(c, NextParaOrDiv(c, b) + 1, Len(c)))

\* C17, amended: a blockquote, and every child up to but not including the
\* next paragraph or div, add nothing to the commentary: it is the commentary
\* of the children before the blockquote followed by that of the children
\* from that paragraph or div on, and only that of the children before the
\* blockquote when no paragraph or div follows it.
C17_ExcludedUpToNextBlock ==
    (sec_pc = "returned" /\ sec_in # << >>) =>
        LET c == sec_in[1]
        IN \A b \in 1..Len(c) :
              IsBlockquote(c[b])
              => sec_out.commentary =
                    CommentaryOf(SubSeq(c, 1, b - 1))
                    \o (IF NextParaOrDiv(c, b) = 0 THEN << >>
                        ELSE CommentaryOf(SubSeq(c, NextParaOrDiv(c, b), Len(c))))

\* C17's case: a blockquote, a span, a paragraph and a text; the commentary
\* is the paragraph and the text.
C17_Witness ==
    /\ sec_pc = "returned"
    /\ sec_in = << << Blockquote, Span, Para, MarkerText >> >>
    /\ sec_out.commentary = << "a", "Recommended" >>

\* No element occurs twice in the sequence.
NoDuplicates(seq) ==
    \A i, j \in 1..Len(seq) : seq[i] = seq[j] => i = j

\* C11: the qualifiers of every row hold no duplicates, and when the post
\* has a title qualifier its lowercased value is the first of them, whichever
\* of 'excellent' and the other fixed qualifiers also match.
C11_QualifiersDistinctTitleFirst ==
    an_pc \in {"called", "again"} =>
        \A i \in 1..Len(an_results) :
            /\ NoDuplicates(an_results[i].qualifiers)
            /\ an_posts[i].title_qualifier # << >>
               => /\ an_results[i].qualifiers # << >>
                  /\ an_results[i].qualifiers[1] = Lower(an_posts[i].title_qualifier[1])

\* C11's case: the title qualifier is "Great", one of the fixed qualifiers,
\* the body holds it too together with "excellent" and "wonderful", and the
\* row has "great" first and once.
C11_Witness ==
    /\ an_pc = "called"
    /\ an_posts = << PostOf(TitleGreat, BodyPraise) >>
    /\ an_results[1].qualifiers = << "great", "excellent", "wonderful" >>

\* C12: a second run of analyze_posts on the same list gives the rows of
\* the first; the list is as it was put together; there is a row for every
\* post, in the order of the posts; the i-th row is the one analyze_posts
\* gives for the i-th post alone and carries that post's fields.
C12_AnnotationPureOrderPreserving ==
    an_pc = "again" =>
        /\ an_results = an_prev
        /\ an_posts = an_given
        /\ Len(an_results) = Len(an_posts)
        /\ \A i \in 1..Len(an_posts) :
              /\ an_results[i] = analyze_posts(<< an_posts[i] >>).results[1]
              /\ an_results[i].date = an_posts[i].date
              /\ an_results[i].title = an_posts[i].title
              /\ an_results[i].url = an_posts[i].url
              /\ an_results[i].title_qualifier = an_posts[i].title_qualifier
              /\ an_results[i].comment_count = an_posts[i].comment_count
              /\ an_results[i].ends_with_recommended = an_posts[i].ends_with_recommended

\* C12's case: analyze_posts has run twice on two posts of different
\* qualifiers, the one with fewer coming second.
C12_Witness ==
    /\ an_pc = "again"
    /\ an_posts = << PostOf(TitleGreat, BodyPraise), PostOf(TitlePlain, NoElem) >>
    /\ an_results[2].qualifiers = << >>
    /\ an_prev[1].qualifiers = << "great", "excellent", "wonderful" >>

\* C14: the row of a post of empty commentary has the score 0, the scorer is
\* never given the empty text, and what it is given are the commentaries
\* of the posts that have one.
C14_EmptyCommentaryNotScored ==
    an_pc \in {"called", "again"} =>
        /\ \A i \in 1..Len(an_posts) :
              an_posts[i].commentary = << >> => an_results[i].sentiment_score = 0
        /\ << >> \notin an_scored
        /\ an_scored = {an_posts[i].commentary : i \in 1..Len(an_posts)} \ {<< >>}

\* C14's case: of two posts the first has no commentary and the second has
\* one, on which the scorer was called and gave a score other than 0.
C14_Witness ==
    /\ an_pc = "called"
    /\ Len(an_posts) = 2
    /\ an_posts[1].commentary = << >>
    /\ an_results[1].sentiment_score = 0
    /\ an_results[2].sentiment_score # 0
    /\ an_scored = {an_posts[2].commentary}

\* The entry has a date, as year, month and day, and it lies before the
\* legacy cutoff.
DatedBeforeLegacyCutoff(entry) ==
    /\ CarriesDate(entry)
    /\ DateOf(entry.time[1].datetime[1][1], entry.time[1].datetime[1][2],
              entry.time[1].datetime[1][3]) < DateOf(2023, 1, 1)

\* The legacy crawl stops at this page: it has no entries, or one of its
\* dated entries lies before the cutoff.
LegacyStopsAt(answer) ==
    \/ LegacyEntries(answer) = << >>
    \/ \E i \in 1..Len(LegacyEntries(answer)) :
          DatedBeforeLegacyCutoff(LegacyEntries(answer)[i])

\* The topical posts of the dated entries of a page, in document order, up
\* to its first entry dated before the cutoff.
RECURSIVE LegacyTopicalOf(_)
LegacyTopicalOf(entries) ==
    IF entries = << >> \/ DatedBeforeLegacyCutoff(Head(entries)) THEN << >>
    ELSE (IF /\ CarriesDate(Head(entries))
             /\ Head(entries).h1 \in {<< TitleLegacy >>}
          THEN << [date |-> DateOf(Head(entries).time[1].datetime[1][1],
                                   Head(entries).time[1].datetime[1][2],
                                   Head(entries).time[1].datetime[1][3]),
                   title |-> Head(entries).h1[1],
                   content |-> << >>,
                   url |-> IF Head(entries).a = << >> \/ Head(entries).a[1].href = << >>
                           THEN ""
                           ELSE Head(entries).a[1].href[1]] >>
          ELSE << >>)
         \o LegacyTopicalOf(Tail(entries))

RECURSIVE LegacyTopicalOfPages(_)
LegacyTopicalOfPages(answers) ==
    IF answers = << >> THEN << >>
    ELSE LegacyTopicalOf(LegacyEntries(Head(answers)))
         \o LegacyTopicalOfPages(Tail(answers))

\* C20: the legacy crawl leaves its loop only by returning, at the first
\* page that has no entries or a dated entry before the cutoff; until then it
\* has requested pages 1, 2, 3, ... in turn and goes on; what it returns are
\* the topical posts of the dated entries before that point, by page and by
\* place on the page.
C20_LegacyCrawlStopsAndReturns ==
    /\ leg_pc \in {"idle", "loop", "returned"}
    /\ leg_pc = "loop"
       => /\ leg_page = Len(leg_fetched) + 1
          /\ \A k \in 1..Len(leg_fetched) : ~LegacyStopsAt(leg_fetched[k])
    /\ leg_pc = "returned"
       => /\ leg_page = Len(leg_fetched)
          /\ LegacyStopsAt(leg_fetched[Len(leg_fetched)])
          /\ \A k \in 1..(Len(leg_fetched) - 1) : ~LegacyStopsAt(leg_fetched[k])
          /\ leg_posts = LegacyTopicalOfPages(leg_fetched)

====
